---- MODULE Spec2Model ----
(***************************************************************************)
(* Pagination and slide assembly of the resume renderer                    *)
(* (optimized_renderer_v2.py, ppt_renderer.py).                            *)
(*                                                                         *)
(* A text is a sequence of glyphs (one-character strings); the empty text  *)
(* is <<>>.  A table is a sequence of rows, row 1 being the header         *)
(* (python index 0); a row is a sequence of cell texts.  A deck is a       *)
(* sequence of slides (prs.slides); python index i is position i + 1.      *)
(***************************************************************************)
EXTENDS Integers, Sequences, FiniteSets, TLC

VARIABLES
    \* ---- page planner (SpecPlan)
    total_papers,     \* argument of _calculate_paper_pages
    planned,          \* <<its return value>>, <<>> before the call
    \* ---- record extractor (SpecExtract)
    papers,           \* the grouped input of extract_paper_items
    items,            \* the list being built
    index,            \* the running 1-based index
    grp,              \* number of groups already consumed
    \* ---- table fillers on one table (SpecFill)
    table,            \* the table object handed to the fillers
    filler,           \* which filler the table belongs to
    window,           \* <<the window of the last fill>>, <<>> before any
    prev,             \* <<the window of the fill before it>>, <<>> if none
    \* ---- one title written to a row (SpecTitle)
    paper,            \* the PaperItem
    cell,             \* <<the title cell text>>, <<>> before the write
    writer,           \* which code path wrote it
    \* ---- _render_single_resume (Spec)
    resume,           \* the subject mapping
    prs,              \* the working deck (prs.slides / _sldIdLst)
    rels,             \* slide ids that prs.part holds a relationship to
    pc,               \* position in _render_single_resume
    plan,             \* the locals paper_items, paper_pages, project_pages
    loc,              \* loop locals (i, page_num, insert_position, paper_offset)
    deleted,          \* history: <<index, slide>> of every deletion, in order
    next_id,          \* next fresh slide id
    \* ---- render_all (SpecAll)
    resumes,          \* the list of subjects handed to render_all
    resume_no,        \* 1-based number of the subject being rendered, 0 before
    owner,            \* which document prs is: "final" (final_prs), "temp"
                      \* (temp_prs) or "none"
    final_prs,        \* the output deck while prs is not it
    final_next,       \* next fresh slide id of the output deck
    blocks,           \* history: [subject, first, count] of every merge
    all_pc,           \* position in the constructor and render_all
    template_exists,  \* os.path.exists(template_path)
    \* ---- PPTRenderer, the from-scratch renderer (SpecScratch)
    scratch_resumes,  \* the list of subjects handed to its render_all
    scratch_prs,      \* <<the deck>> once Presentation() made it, <<>> before
    scratch_pc,       \* position in its render_all
    scratch_no,       \* 1-based number of the subject of the loop, 0 before
    papers_per_page,  \* self.PAPERS_PER_PAGE
    paper_calls       \* history: [subject, added, ret] of every call of
                      \* render_papers_slides

planVars    == <<total_papers, planned>>
extractVars == <<papers, items, index, grp>>
fillVars    == <<table, filler, window, prev>>
titleVars   == <<paper, cell, writer>>
renderVars  == <<resume, prs, rels, pc, plan, loc, deleted, next_id>>
allVars     == <<resumes, resume_no, owner, final_prs, final_next, blocks, all_pc,
                 template_exists>>
scratchVars == <<scratch_resumes, scratch_prs, scratch_pc, scratch_no,
                 papers_per_page, paper_calls>>
vars        == <<planVars, extractVars, fillVars, titleVars, renderVars, allVars,
                 scratchVars>>

\* what each operation leaves alone besides its own component's state
PlanFrame    == UNCHANGED <<extractVars, fillVars, titleVars, renderVars, allVars,
                            scratchVars>>
ExtractFrame == UNCHANGED <<planVars, fillVars, titleVars, renderVars, allVars,
                            scratchVars>>
FillFrame    == UNCHANGED <<planVars, extractVars, titleVars, renderVars, allVars,
                            scratchVars>>
TitleFrame   == UNCHANGED <<planVars, extractVars, fillVars, renderVars, allVars,
                            scratchVars>>
RenderFrame  == UNCHANGED <<planVars, extractVars, fillVars, titleVars, allVars,
                            scratchVars>>
AllFrame     == UNCHANGED <<planVars, extractVars, fillVars, titleVars, template_exists,
                            scratchVars>>
ScratchFrame == UNCHANGED <<planVars, extractVars, fillVars, titleVars, renderVars,
                            allVars>>

(***************************************************************************)
(* Bounds of the model.                                                    *)
(***************************************************************************)
MaxCount    == 90     \* paper counts handed to the planner alone
MaxPapers   == 31     \* papers of a rendered subject (31 needs 4 pages)
MaxProjects == 11     \* project records of a rendered subject
MaxAwards   == 8      \* award records of a rendered subject
MaxOther    == 7      \* other-achievement records of a rendered subject
MaxGroups   == 2      \* paper groups handed to the extractor alone
MaxTitles   == 3      \* titles per group handed to the extractor alone
MaxRows     == 3      \* data rows of the table in SpecFill
MaxWindow   == 4      \* window length in SpecFill
MaxTitleLen == 82     \* title length in SpecTitle
MaxResumes  == 2      \* subjects handed to render_all
MaxScratchPapers == 17  \* titles of a subject of the from-scratch renderer

(***************************************************************************)
(* Python helpers.                                                         *)
(***************************************************************************)
Min(a, b) == IF a <= b THEN a ELSE b
Max(a, b) == IF a >= b THEN a ELSE b

\* math.ceil(a / b) for integers a >= 0, b > 0
Ceil(a, b) == (a + b - 1) \div b

\* s[a:b] for 0 <= a, 0 <= b (python clips both ends to len(s))
PySlice(s, a, b) ==
    LET hi == Min(b, Len(s))
    IN  IF a >= hi THEN <<>> ELSE SubSeq(s, a + 1, hi)

\* s[:n] if len(s) > n else s
CapText(s, n) == IF Len(s) > n THEN PySlice(s, 0, n) ELSE s

(***************************************************************************)
(* Page planner.                                                           *)
(***************************************************************************)
\* mutant: floor instead of ceil for the pages after the first
PaperPagesFloor(n) ==
    IF n = 0 THEN 0
    ELSE IF n <= 8 THEN 1
    ELSE 1 + ((n - 8) \div 11)

_calculate_paper_pages(n) ==
    IF n = 0 THEN 0
    ELSE IF n <= 8 THEN 1
    ELSE LET remaining == n - 8
         IN  1 + Ceil(remaining, 11)

PlanInit ==
    /\ total_papers \in 0..MaxCount
    /\ planned = <<>>

PlanPapers ==
    /\ planned = <<>>
    /\ planned' = <<_calculate_paper_pages(total_papers)>>
    /\ UNCHANGED total_papers
    /\ PlanFrame

(***************************************************************************)
(* Record extractor (DataFormatter.extract_paper_items).                   *)
(* The glyphs "<" and ">" stand for the book-title marks the code strips,  *)
(* "/" for the ideographic comma it turns into ",".                        *)
(***************************************************************************)
Dash == <<"-">>

\* the value None of a field of an input record (a JSON null)
Null == <<"null">>

\* str(v) and f"{v}" of a text or of None
PyStr(v) == IF v = Null THEN <<"N", "o", "n", "e">> ELSE v

\* s.replace(g, "") for a one-glyph g
RemoveGlyph(s, g) == SelectSeq(s, LAMBDA c : c # g)

\* s.replace(g, h) for one-glyph g and h
ReplaceGlyph(s, g, h) == [k \in 1..Len(s) |-> IF s[k] = g THEN h ELSE s[k]]

\* s.split(sep) for a one-glyph sep: always at least one piece
RECURSIVE SplitFrom(_, _, _, _)
SplitFrom(s, sep, k, cur) ==
    IF k > Len(s) THEN <<cur>>
    ELSE IF s[k] = sep THEN <<cur>> \o SplitFrom(s, sep, k + 1, <<>>)
    ELSE SplitFrom(s, sep, k + 1, Append(cur, s[k]))

Split(s, sep) == SplitFrom(s, sep, 1, <<>>)

\* s.strip() with the blank as the only whitespace glyph
RECURSIVE LStrip(_)
LStrip(s) == IF s # <<>> /\ Head(s) = " " THEN LStrip(Tail(s)) ELSE s

RECURSIVE RStrip(_)
RStrip(s) ==
    IF s # <<>> /\ s[Len(s)] = " " THEN RStrip(SubSeq(s, 1, Len(s) - 1)) ELSE s

Strip(s) == RStrip(LStrip(s))

\* [y.strip() for y in str(years).replace("/", ",").split(",") if y.strip()]
YearList(years) ==
    LET pieces   == Split(ReplaceGlyph(years, "/", ","), ",")
        stripped == [k \in 1..Len(pieces) |-> Strip(pieces[k])]
    IN  SelectSeq(stripped, LAMBDA y : y # <<>>)

\* paper_group.get("期刊名称", "").replace("<", "").replace(">", "")
GroupJournal(group) == RemoveGlyph(RemoveGlyph(group.journal, "<"), ">")

\* paper_group.get("类别", "") or "-"
GroupCategory(group) ==
    IF group.category \in {<<>>, Null} THEN Dash ELSE group.category

\* paper_group.get("年份", "") or ... or paper_group.get(" 年份", ""): a null or
\* empty year falls through to the default "" of the last key
GroupYears(group) == IF group.years = Null THEN <<>> ELSE group.years

\* year_list[i] if i < len(year_list) else (year_list[0] if year_list else "-")
\* (i is the 0-based position of the title in its group)
ItemYear(year_list, i) ==
    IF i < Len(year_list) THEN year_list[i + 1]
    ELSE IF year_list # <<>> THEN year_list[1]
    ELSE Dash

PaperItem(idx, title, journal, category, year) ==
    [index    |-> idx,
     title    |-> title,
     journal  |-> journal,
     category |-> IF category = <<>> THEN Dash ELSE category,
     year     |-> year,
     is_first_author |-> <<"?">>]

\* mutant: the index restarts at 1 in every group
GroupItemsLocalIndex(group, start) ==
    LET year_list == YearList(GroupYears(group))
    IN  [k \in 1..Len(group.titles) |->
            PaperItem(k, group.titles[k], GroupJournal(group),
                      GroupCategory(group), ItemYear(year_list, k - 1))]

\* the inner loop over one group's titles; start is the value of index on entry
GroupItems(group, start) ==
    LET year_list == YearList(GroupYears(group))
    IN  [k \in 1..Len(group.titles) |->
            PaperItem(start + k - 1, group.titles[k], GroupJournal(group),
                      GroupCategory(group), ItemYear(year_list, k - 1))]

\* the whole function, as the render calls it
RECURSIVE ExtractFrom(_, _, _)
ExtractFrom(groups, g, start) ==
    IF g > Len(groups) THEN <<>>
    ELSE GroupItems(groups[g], start)
           \o ExtractFrom(groups, g + 1, start + Len(groups[g].titles))

extract_paper_items(groups) == ExtractFrom(groups, 1, 1)

\* ---- inputs of SpecExtract
TitleText(i) == <<"t", ToString(i)>>

Venues ==
    { [journal |-> <<"<", "N", ">">>, category |-> <<>>],
      [journal |-> <<"C">>,           category |-> <<"S">>] }

YearTexts ==
    { <<>>,
      <<"2020">>,
      <<"2020", ",", "2021">>,
      <<"2019", "/", " ", "2020", ",", "2021">> }

GroupChoices ==
    { [journal |-> v.journal, category |-> v.category, years |-> y,
       titles |-> [i \in 1..m |-> TitleText(i)]] :
        v \in Venues, y \in YearTexts, m \in 0..MaxTitles }

ExtractInit ==
    /\ papers \in UNION { [1..n -> GroupChoices] : n \in 0..MaxGroups }
    /\ items = <<>>
    /\ index = 1
    /\ grp = 0

\* one iteration of "for paper_group in papers"
ExtractGroup ==
    /\ grp < Len(papers)
    /\ items' = items \o GroupItems(papers[grp + 1], index)
    /\ index' = index + Len(papers[grp + 1].titles)
    /\ grp' = grp + 1
    /\ UNCHANGED papers
    /\ ExtractFrame

(***************************************************************************)
(* Table fillers.  A table is <<header, data row, ...>>; table[r] is       *)
(* table.rows[r - 1] of the code.                                          *)
(***************************************************************************)
EmptyText == <<>>
AwardsLabel == <<"awards">>     \* the category label of the first award row

\* "sep".join(names)
RECURSIVE Join(_, _)
Join(names, sep) ==
    IF names = <<>> THEN <<>>
    ELSE IF Len(names) = 1 THEN names[1]
    ELSE names[1] \o <<sep>> \o Join(Tail(names), sep)

\* mutant: the clearing loop is left out
KeepRow(row) == row

\* for cell in table.rows[i].cells: cell.text = ""
ClearRow(row) == [c \in 1..Len(row) |-> EmptyText]

\* for i in range(1, len(table.rows)): clear row i (the header, row 0, is kept)
ClearDataRows(t) == [r \in 1..Len(t) |-> IF r = 1 THEN t[r] ELSE ClearRow(t[r])]

\* paper.title[:80] if len(paper.title) > 80 else paper.title
PaperTitleCell(title) == CapText(title, 80)

\* the cells _fill_paper_table writes for one paper
PaperRow(row, p) ==
    IF Len(row) >= 5
    THEN [row EXCEPT ![1] = CapText(p.journal, 60),
                     ![2] = PaperTitleCell(p.title),
                     ![3] = <<"1">>,
                     ![4] = EmptyText,
                     ![5] = CapText(p.category, 20)]
    ELSE row

\* mutant: a row is added to the table for every item past its last row
FillPaperTableGrow(t, page_papers) ==
    [r \in 1..Max(Len(t), Len(page_papers) + 1) |->
        IF r = 1 THEN t[r]
        ELSE IF r - 1 <= Len(page_papers)
        THEN PaperRow([c \in 1..Len(t[1]) |-> EmptyText], page_papers[r - 1])
        ELSE ClearRow(t[r])]

\* clear every data row, then write item i into row i + 1 until the items or
\* the rows run out ("if i + 1 >= len(table.rows): break"); row by row:
_fill_paper_table(t, page_papers) ==
    [r \in 1..Len(t) |->
        IF r = 1 THEN t[r]
        ELSE IF r - 1 <= Len(page_papers)
        THEN PaperRow(ClearRow(t[r]), page_papers[r - 1])
        ELSE ClearRow(t[r])]

\* the cells _fill_projects_table writes for one project
ProjectRow(row, project) ==
    IF Len(row) >= 5
    THEN [row EXCEPT ![1] = PySlice(project.category, 0, 30),
                     ![2] = CapText(Join(project.names, "/"), 100),
                     ![3] = PyStr(project.count),
                     ![4] = PySlice(project.year, 0, 30),
                     ![5] = PySlice(project.note, 0, 50)]
    ELSE row

_fill_projects_table(t, page_projects) ==
    [r \in 1..Len(t) |->
        IF r = 1 THEN t[r]
        ELSE IF r - 1 <= Len(page_projects)
        THEN ProjectRow(ClearRow(t[r]), page_projects[r - 1])
        ELSE ClearRow(t[r])]

\* None[:30] of the category, the year or the note raises TypeError
ProjectRaises(project) == Null \in {project.category, project.year, project.note}

\* the data rows (1-based) of t whose record makes _fill_projects_table raise
RaisingProjectRows(t, page_projects) ==
    { k \in 1..Min(Len(page_projects), Len(t) - 1) :
        Len(t[k + 1]) >= 5 /\ ProjectRaises(page_projects[k]) }

\* the cells of the row written before the TypeError
ProjectRowUntilRaise(row, project) ==
    IF project.category = Null THEN row
    ELSE LET three == [row EXCEPT ![1] = PySlice(project.category, 0, 30),
                                  ![2] = CapText(Join(project.names, "/"), 100),
                                  ![3] = PyStr(project.count)]
         IN  IF project.year = Null THEN three
             ELSE [three EXCEPT ![4] = PySlice(project.year, 0, 30)]

\* the table _fill_projects_table leaves behind when the record of data row k
\* raises: cleared, the rows before k written, row k in part
FillProjectsTableUntilRaise(t, page_projects, k) ==
    [r \in 1..Len(t) |->
        IF r = 1 THEN t[r]
        ELSE IF r - 1 < k THEN ProjectRow(ClearRow(t[r]), page_projects[r - 1])
        ELSE IF r - 1 = k THEN ProjectRowUntilRaise(ClearRow(t[r]), page_projects[k])
        ELSE ClearRow(t[r])]

\* the cells written for one award; current_row is the python row index
AwardRow(row, award, current_row, n_awards) ==
    IF Len(row) >= 4
    THEN [row EXCEPT ![1] = IF current_row = 1 THEN AwardsLabel ELSE EmptyText,
                     ![2] = CapText(award.name, 80),
                     ![3] = IF current_row = 1
                            THEN <<ToString(n_awards), "items">>
                            ELSE <<"1", "items">>,
                     ![4] = IF award.year \in {<<>>, Null} THEN EmptyText
                            ELSE award.year]
    ELSE row

\* the cells written for one other-achievement record
OtherRow(row, item) ==
    IF Len(row) >= 4
    THEN [row EXCEPT ![1] = PySlice(item.category, 0, 20),
                     ![2] = CapText(Join(item.names, "/"), 80),
                     ![3] = PyStr(item.count),
                     ![4] = CapText(PyStr(item.year) \o <<" ">> \o PyStr(item.note), 50)]
    ELSE row

\* show_note is accepted and never read (lines 744-819)
_fill_other_achievements_table(t, other_list, awards, show_note) ==
    LET \* awards written before "current_row >= len(table.rows)" breaks the loop
        n_written   == Min(Len(awards), Max(Len(t) - 1, 0))
        current_row == 1 + n_written
    IN  [r \in 1..Len(t) |->
            LET row_idx == r - 1
            IN  IF row_idx = 0 THEN t[r]
                ELSE IF row_idx <= n_written
                THEN AwardRow(ClearRow(t[r]), awards[row_idx], row_idx, Len(awards))
                ELSE IF row_idx - current_row < Len(other_list)
                THEN OtherRow(ClearRow(t[r]), other_list[row_idx - current_row + 1])
                ELSE ClearRow(t[r])]

\* item.get("类别", "")[:20] of a null category raises TypeError
OtherRaises(item) == item.category = Null

\* the positions (1-based) in other_list of the records that make
\* _fill_other_achievements_table raise
RaisingOtherItems(t, other_list, awards) ==
    LET n_written == Min(Len(awards), Max(Len(t) - 1, 0))
    IN  { j \in 1..Len(other_list) :
            /\ n_written + j <= Len(t) - 1
            /\ Len(t[n_written + j + 1]) >= 4
            /\ OtherRaises(other_list[j]) }

\* the table left behind when record j raises: the category is the first
\* cell of its row, so the rows before it are written and nothing of its own
FillOtherTableUntilRaise(t, other_list, awards, j) ==
    _fill_other_achievements_table(t, SubSeq(other_list, 1, j - 1), awards, TRUE)

(***************************************************************************)
(* From-scratch paper table (PPTRenderer._create_papers_table): a new      *)
(* table of len(papers) + 1 rows and the six TABLE_COLUMNS.                *)
(***************************************************************************)
ScratchHeader == << <<"no">>, <<"title">>, <<"venue">>, <<"category">>,
                    <<"year">>, <<"first">> >>

_create_papers_table(page_papers) ==
    <<ScratchHeader>> \o
    [k \in 1..Len(page_papers) |->
        LET p == page_papers[k]
        IN  << <<ToString(p.index)>>,
               IF Len(p.title) > 80
               THEN PySlice(p.title, 0, 77) \o <<".", ".", ".">>
               ELSE p.title,
               IF Len(p.journal) > 40
               THEN PySlice(p.journal, 0, 37) \o <<".", ".", ".">>
               ELSE p.journal,
               p.category,
               p.year,
               p.is_first_author >>]

(***************************************************************************)
(* The template document and the slide primitives.                         *)
(* A slide is [id, kind, origin, fills, note, table]: fills is the list of  *)
(* fill methods that rewrote its texts, note tells whether it still has its *)
(* remark text box, table is tables[0] of _find_tables (<<>>: no table).    *)
(***************************************************************************)
TemplateText == <<"tpl">>       \* what a cell of the template file holds

BlankTable(n_rows, n_cols) ==
    << [c \in 1..n_cols |-> <<"header">>] >> \o
    [r \in 1..n_rows |-> [c \in 1..n_cols |-> TemplateText]]

\* the tables the template file ships, by kind of slide
TemplateTable(kind) ==
    CASE kind = "basic"       -> BlankTable(1, 2)
      [] kind = "paper8"      -> BlankTable(8, 5)
      [] kind = "paper11"     -> BlankTable(11, 5)
      [] kind = "project"     -> BlankTable(10, 5)
      [] kind = "achievement" -> BlankTable(7, 4)
      [] OTHER                -> <<>>

TemplateKinds ==
    << "cover", "index", "basic", "paper8", "paper11",
       "project", "achievement", "closing" >>

\* Presentation(self.template_path)
Template ==
    [k \in 1..Len(TemplateKinds) |->
        [id     |-> k,
         kind   |-> TemplateKinds[k],
         origin |-> "loaded",
         fills  |-> <<>>,
         note   |-> (TemplateKinds[k] = "achievement"),
         table  |-> TemplateTable(TemplateKinds[k])]]

\* mutant: off by one, the slide before index i goes
DeleteBefore(deck, i) ==
    [k \in 1..(Len(deck) - 1) |-> IF k < i THEN deck[k] ELSE deck[k + 1]]

\* del prs.slides._sldIdLst[i]
DeleteAt(deck, i) ==
    [k \in 1..(Len(deck) - 1) |-> IF k <= i THEN deck[k] ELSE deck[k + 1]]

\* _sldIdLst.insert(position, element): a position past the end appends
InsertAt(deck, position, slide) ==
    LET at == Min(position, Len(deck))
    IN  [k \in 1..(Len(deck) + 1) |->
            IF k <= at THEN deck[k]
            ELSE IF k = at + 1 THEN slide
            ELSE deck[k - 1]]

\* the new slide of _copy_slide_to_presentation: every shape of the source
\* is deep-copied, so it carries whatever the source carries
CopyOf(source_slide, id) ==
    [source_slide EXCEPT !.id = id, !.origin = "copy"]

\* mutant: the new slide stays at the end of the deck
InsertSlideAtEnd(deck, source_slide, position, id) ==
    Append(deck, CopyOf(source_slide, id))

\* mutant: the new slide is moved one place too early
InsertSlideOneEarly(deck, source_slide, position, id) ==
    LET at == Max(Min(position, Len(deck)) - 1, 0)
    IN  [k \in 1..(Len(deck) + 1) |->
            IF k <= at THEN deck[k]
            ELSE IF k = at + 1 THEN CopyOf(source_slide, id)
            ELSE deck[k - 1]]

\* _insert_slide_at_position: add at the end, then move to position
_insert_slide_at_position(deck, source_slide, position, id) ==
    LET appended == Append(deck, CopyOf(source_slide, id))
        moved    == appended[Len(appended)]
        without  == SubSeq(appended, 1, Len(appended) - 1)
    IN  InsertAt(without, position, moved)

(***************************************************************************)
(* Page planner of the project and achievement sections.                   *)
(***************************************************************************)
\* mutant: the "at least 1 page" defaults are left out
ProjectPagesNoFloor(projects, awards, other) ==
    Ceil(Len(projects), 10) + Ceil(Len(awards) + Len(other), 7)

_calculate_project_pages(projects, awards, other) ==
    LET project_pages == IF projects # <<>> THEN Ceil(Len(projects), 10) ELSE 1
        total_rows    == Len(awards) + Len(other)
        other_pages   ==
            IF awards # <<>> \/ other # <<>>
            THEN IF total_rows = 0 THEN 1
                 ELSE IF total_rows <= 7 THEN 1
                 ELSE 1 + Ceil(total_rows - 7, 7)
            ELSE 1
    IN  project_pages + other_pages

(***************************************************************************)
(* Slide fills.                                                            *)
(***************************************************************************)
_fill_basic_info_slide(slide) ==
    [slide EXCEPT !.fills = Append(@, "basic"),
                  !.table = IF @ # <<>> THEN ClearDataRows(@) ELSE @]

_fill_paper_slide(slide, page_papers) ==
    [slide EXCEPT !.fills = Append(@, "paper"),
                  !.table = IF @ # <<>> THEN _fill_paper_table(@, page_papers)
                            ELSE @]

_fill_talent_office_slide(slide) ==
    [slide EXCEPT !.fills = Append(@, "office")]

\* mutant: a page past the awards slices the other achievements by row number
AchievementWindowNoOffset(awards, other, other_page_num) ==
    LET total_awards == Len(awards)
        total_items  == total_awards + Len(other)
        start_idx    == other_page_num * 7
        end_idx      == Min(start_idx + 7, total_items)
    IN  IF start_idx < total_awards
        THEN LET awards_on_page  == PySlice(awards, start_idx,
                                            Min(end_idx, total_awards))
                 remaining_space == 7 - Len(awards_on_page)
             IN  [awards |-> awards_on_page,
                  other  |-> IF remaining_space > 0 /\ end_idx > total_awards
                             THEN PySlice(other,
                                          Max(0, start_idx - total_awards),
                                          end_idx - total_awards)
                             ELSE <<>>,
                  show_note |-> (other_page_num = 0)]
        ELSE [awards |-> <<>>,
              other  |-> PySlice(other, start_idx, end_idx),
              show_note |-> FALSE]

\* the rows of an achievement page: [awards, other] handed to the table filler
AchievementWindow(awards, other, other_page_num) ==
    LET total_awards == Len(awards)
        total_items  == total_awards + Len(other)
        start_idx    == other_page_num * 7
        end_idx      == Min(start_idx + 7, total_items)
    IN  IF start_idx < total_awards
        THEN LET awards_on_page  == PySlice(awards, start_idx,
                                            Min(end_idx, total_awards))
                 remaining_space == 7 - Len(awards_on_page)
             IN  [awards |-> awards_on_page,
                  other  |-> IF remaining_space > 0 /\ end_idx > total_awards
                             THEN PySlice(other,
                                          Max(0, start_idx - total_awards),
                                          end_idx - total_awards)
                             ELSE <<>>,
                  show_note |-> (other_page_num = 0)]
        ELSE [awards |-> <<>>,
              other  |-> PySlice(other, start_idx - total_awards,
                                 end_idx - total_awards),
              show_note |-> FALSE]

\* mutant: windows of the 5 records per page the docstring speaks of
ProjectWindowByFive(projects, page_num) ==
    LET project_capacity == 5
        start_idx == page_num * project_capacity
        end_idx   == Min(start_idx + project_capacity, Len(projects))
    IN  PySlice(projects, start_idx, end_idx)

\* the window of a project page
ProjectWindow(projects, page_num) ==
    LET project_capacity == 10
        start_idx == page_num * project_capacity
        end_idx   == Min(start_idx + project_capacity, Len(projects))
    IN  PySlice(projects, start_idx, end_idx)

\* other = resume.get("其他成果") or []; if not isinstance(other, list): other = []
\* (other_type tells what the value of the key is; a mapping keeps its
\* entries in the field other)
OtherOf(res) == IF res.other_type = "list" THEN res.other ELSE <<>>

_fill_project_slide_paginated(slide, res, page_num, total_pages, project_pages_count) ==
    IF page_num < project_pages_count
    THEN [slide EXCEPT
            !.fills = Append(@, "project"),
            !.table = IF @ # <<>>
                      THEN _fill_projects_table(@, ProjectWindow(res.projects,
                                                                 page_num))
                      ELSE @]
    ELSE LET other_page_num == page_num - project_pages_count
             w == AchievementWindow(res.awards, OtherOf(res), other_page_num)
         IN  [slide EXCEPT
                !.fills = Append(@, "achievement"),
                !.table = IF @ # <<>>
                          THEN _fill_other_achievements_table(@, w.other,
                                                              w.awards,
                                                              w.show_note)
                          ELSE @,
                !.note  = IF slide.table # <<>> /\ other_page_num > 0
                          THEN FALSE ELSE @]

\* whether the table fill of the page raises
PageRaises(slide, res, page_num, project_pages_count) ==
    /\ slide.table # <<>>
    /\ IF page_num < project_pages_count
       THEN RaisingProjectRows(slide.table, ProjectWindow(res.projects, page_num)) # {}
       ELSE LET w == AchievementWindow(res.awards, OtherOf(res), page_num - project_pages_count)
            IN  RaisingOtherItems(slide.table, w.other, w.awards) # {}

\* the slide as the raise leaves it: the header texts rewritten, the table
\* filled up to the record that raised
SlideUntilRaise(slide, res, page_num, project_pages_count) ==
    IF page_num < project_pages_count
    THEN LET w == ProjectWindow(res.projects, page_num)
             k == CHOOSE x \in RaisingProjectRows(slide.table, w) :
                     \A y \in RaisingProjectRows(slide.table, w) : x <= y
         IN  [slide EXCEPT !.fills = Append(@, "project"),
                           !.table = FillProjectsTableUntilRaise(@, w, k)]
    ELSE LET w == AchievementWindow(res.awards, OtherOf(res), page_num - project_pages_count)
             j == CHOOSE x \in RaisingOtherItems(slide.table, w.other, w.awards) :
                     \A y \in RaisingOtherItems(slide.table, w.other, w.awards) : x <= y
         IN  [slide EXCEPT !.fills = Append(@, "achievement"),
                           !.table = FillOtherTableUntilRaise(@, w.other, w.awards, j)]

(***************************************************************************)
(* _render_single_resume on the working deck prs.                          *)
(***************************************************************************)
\* ---- the locals computed once from the subject (lines 122-138, 203-205)
paper_items == plan.paper_items

paper_pages == plan.paper_pages

project_pages == plan.project_pages

\* mutant: the 5 records per page of the docstring of the paginated fill
ProjectPagesCountByFive ==
    LET project_count == Len(resume.projects)
    IN  IF project_count > 0 THEN Ceil(project_count, 5) ELSE 1

project_pages_count ==
    LET project_count == Len(resume.projects)
    IN  IF project_count > 0 THEN Ceil(project_count, 10) ELSE 1

other_pages_count == project_pages - project_pages_count

\* mutant: the position of the project slide in the unmodified template
StaleFirstProjectIdx == 3 + 2

\* first_project_idx = 3 + paper_pages
first_project_idx == 3 + paper_pages

\* capacities[page_num] if page_num < len(capacities) else 11
capacities == <<8, 11, 11, 11, 11, 11>>

\* mutant: every page is given the capacity of the later pages
PaperCapacityUniform(page_num) == 11

PaperCapacity(page_num) ==
    IF page_num < Len(capacities) THEN capacities[page_num + 1] ELSE 11

\* ---- where control goes after each stage
AfterProjectsInserted ==
    IF other_pages_count > 1 THEN "insert_other"
    ELSE IF other_pages_count = 0 THEN "delete_other"
    ELSE "fill_projects"

AfterPapersFilled ==
    IF project_pages_count > 1 THEN "insert_projects" ELSE AfterProjectsInserted

AfterPapersReconciled ==
    IF paper_pages > 0 THEN "fill_papers" ELSE AfterPapersFilled

\* mutant: two planned paper pages are taken for "fewer than the template has"
AfterBasicDropsAtTwo ==
    IF paper_pages <= 2 THEN "drop_second_paper"
    ELSE IF paper_pages > 2 THEN "insert_papers"
    ELSE AfterPapersReconciled

AfterBasic ==
    IF paper_pages = 0 \/ paper_pages = 1 THEN "drop_second_paper"
    ELSE IF paper_pages > 2 THEN "insert_papers"
    ELSE AfterPapersReconciled

\* the loop locals on entry to a stage
EnterLoc(stage) ==
    [i               |-> 0,
     page_num        |-> 0,
     paper_offset    |-> 0,
     insert_position |->
        CASE stage = "insert_papers"   -> 5
          [] stage = "insert_projects" -> 3 + paper_pages + 1
          [] stage = "insert_other"    -> 3 + paper_pages + project_pages_count + 1
          [] OTHER                     -> 0]

\* ---- the subjects rendered
ProjectRecord(i) ==
    [category |-> <<"c">>, names |-> << <<"J", ToString(i)>> >>,
     count |-> <<"1">>, year |-> <<"2020">>, note |-> <<>>]

AwardRecord(i) == [name |-> <<"A", ToString(i)>>, year |-> <<"2021">>]

OtherRecord(i) ==
    [category |-> <<"k">>, names |-> << <<"O", ToString(i)>> >>,
     count |-> <<"1">>, year |-> <<"2022">>, note |-> <<"n">>]

PaperGroup(n) ==
    [journal |-> <<"<", "N", ">">>, category |-> <<"S">>, years |-> <<"2020">>,
     titles |-> [i \in 1..n |-> TitleText(i)]]

Subject(n, p, a, o) ==
    [name     |-> <<"x">>,
     papers   |-> IF n = 0 THEN <<>> ELSE <<PaperGroup(n)>>,
     projects |-> [i \in 1..p |-> ProjectRecord(i)],
     awards   |-> [i \in 1..a |-> AwardRecord(i)],
     other    |-> [i \in 1..o |-> OtherRecord(i)],
     other_type |-> "list"]

\* The sections meet only through their page counts, so every count of one
\* section is rendered with the others at the counts where their page count
\* changes, and every pair of achievement counts with those of the others.
PaperCorners ==
    { n \in 0..MaxPapers :
        \/ n = 0 \/ n = MaxPapers
        \/ _calculate_paper_pages(n) # _calculate_paper_pages(n + 1) }

ProjectCorners ==
    { p \in 0..MaxProjects :
        p = 0 \/ p = MaxProjects \/ Ceil(p, 10) # Ceil(p + 1, 10) }

AchievementCorners == { <<0, 0>>, <<MaxAwards, MaxOther>> }

Subjects ==
    { Subject(n, p, ao[1], ao[2]) :
        n \in 0..MaxPapers, p \in ProjectCorners, ao \in AchievementCorners }
    \cup
    { Subject(n, p, ao[1], ao[2]) :
        n \in PaperCorners, p \in 0..MaxProjects, ao \in AchievementCorners }
    \cup
    { Subject(n, p, a, o) :
        n \in PaperCorners, p \in ProjectCorners,
        a \in 0..MaxAwards, o \in 0..MaxOther }

NoPlan == [paper_items |-> <<>>, paper_pages |-> 0, project_pages |-> 0]

RenderInit ==
    /\ resume \in Subjects
    /\ prs = Template
    /\ rels = { Template[k].id : k \in 1..Len(Template) }
    /\ pc = "start"
    /\ plan = NoPlan
    /\ loc = EnterLoc("start")
    /\ deleted = <<>>
    /\ next_id = Len(Template) + 1

\* ---- steps 1 and 2: flatten the papers, plan the page counts
\* mutant: the normalised list of other achievements is stored in the subject
PlanSubjectStoresOther ==
    /\ pc = "start"
    /\ LET flat == extract_paper_items(resume.papers)
       IN  plan' = [paper_items   |-> flat,
                    paper_pages   |-> _calculate_paper_pages(Len(flat)),
                    project_pages |-> _calculate_project_pages(resume.projects, resume.awards, OtherOf(resume))]
    /\ resume' = [resume EXCEPT !.other = OtherOf(resume), !.other_type = "list"]
    /\ pc' = "basic"
    /\ UNCHANGED <<prs, rels, loc, deleted, next_id>>
    /\ RenderFrame

PlanSubject ==
    /\ pc = "start"
    /\ LET flat == extract_paper_items(resume.papers)
       IN  plan' = [paper_items   |-> flat,
                    paper_pages   |-> _calculate_paper_pages(Len(flat)),
                    project_pages |-> _calculate_project_pages(resume.projects, resume.awards, OtherOf(resume))]
    /\ pc' = "basic"
    /\ UNCHANGED <<resume, prs, rels, loc, deleted, next_id>>
    /\ RenderFrame

\* ---- step 3: the basic-info slide
FillBasicInfo ==
    /\ pc = "basic"
    /\ prs' = IF Len(prs) > 2
              THEN [prs EXCEPT ![3] = _fill_basic_info_slide(@)]
              ELSE prs
    /\ pc' = AfterBasic
    /\ loc' = EnterLoc(AfterBasic)
    /\ UNCHANGED <<resume, plan, rels, deleted, next_id>>
    /\ RenderFrame

\* ---- step 4: paper slides the subject does not need
\* rId = _sldIdLst[i].rId; prs.part.drop_rel(rId); del _sldIdLst[i]
\* mutant: the entry leaves the slide list and the relationship is kept
DropSlideKeepRel(i) ==
    /\ prs' = DeleteAt(prs, i)
    /\ rels' = rels
    /\ deleted' = Append(deleted, [index |-> i, slide |-> prs[i + 1]])

DropSlide(i) ==
    /\ prs' = DeleteAt(prs, i)
    /\ rels' = rels \ {prs[i + 1].id}
    /\ deleted' = Append(deleted, [index |-> i, slide |-> prs[i + 1]])

\* mutant: the deletion takes the first paper slide instead of the last one
DropLeadingPaperSlide ==
    /\ pc = "drop_second_paper"
    /\ IF Len(prs) > 4 THEN DropSlide(3) ELSE UNCHANGED <<prs, rels, deleted>>
    /\ LET to == IF paper_pages = 0 THEN "drop_first_paper"
                 ELSE AfterPapersReconciled
       IN  pc' = to /\ loc' = EnterLoc(to)
    /\ UNCHANGED <<resume, plan, next_id>>
    /\ RenderFrame

DropSecondPaperSlide ==
    /\ pc = "drop_second_paper"
    /\ IF Len(prs) > 4 THEN DropSlide(4) ELSE UNCHANGED <<prs, rels, deleted>>
    /\ LET to == IF paper_pages = 0 THEN "drop_first_paper"
                 ELSE AfterPapersReconciled
       IN  pc' = to /\ loc' = EnterLoc(to)
    /\ UNCHANGED <<resume, plan, next_id>>
    /\ RenderFrame

DropFirstPaperSlide ==
    /\ pc = "drop_first_paper"
    /\ IF Len(prs) > 3 THEN DropSlide(3) ELSE UNCHANGED <<prs, rels, deleted>>
    /\ pc' = AfterPapersReconciled
    /\ loc' = EnterLoc(AfterPapersReconciled)
    /\ UNCHANGED <<resume, plan, next_id>>
    /\ RenderFrame

\* ---- steps 4, 6.1, 6.2: one iteration of an insertion loop
\* template_prs is a fresh Presentation(self.template_path)
\* mutant: the clone is copied from the slide at that index of the working deck
InsertCloneFromDeck(stage, source_idx, extra, after) ==
    /\ pc = stage
    /\ LET source_slide == IF source_idx < Len(prs) THEN prs[source_idx + 1]
                           ELSE Template[source_idx + 1]
       IN  prs' = _insert_slide_at_position(prs, source_slide, loc.insert_position, next_id)
    /\ rels' = rels \cup {next_id}
    /\ next_id' = next_id + 1
    /\ IF loc.i + 1 < extra
       THEN /\ pc' = pc
            /\ loc' = [loc EXCEPT !.i = @ + 1, !.insert_position = @ + 1]
       ELSE /\ pc' = after
            /\ loc' = EnterLoc(after)
    /\ UNCHANGED <<resume, plan, deleted>>
    /\ RenderFrame

InsertClone(stage, source_idx, extra, after) ==
    /\ pc = stage
    /\ prs' = _insert_slide_at_position(prs, Template[source_idx + 1], loc.insert_position, next_id)
    /\ rels' = rels \cup {next_id}
    /\ next_id' = next_id + 1
    /\ IF loc.i + 1 < extra
       THEN /\ pc' = pc
            /\ loc' = [loc EXCEPT !.i = @ + 1, !.insert_position = @ + 1]
       ELSE /\ pc' = after
            /\ loc' = EnterLoc(after)
    /\ UNCHANGED <<resume, plan, deleted>>
    /\ RenderFrame

InsertPaperSlide ==
    InsertClone("insert_papers", 4, paper_pages - 2, AfterPapersReconciled)

InsertProjectSlide ==
    InsertClone("insert_projects", 5, project_pages_count - 1, AfterProjectsInserted)

InsertOtherSlide ==
    InsertClone("insert_other", 6, other_pages_count - 1, "fill_projects")

\* ---- step 5: one iteration of the paper fill loop
FillPaperPage ==
    /\ pc = "fill_papers"
    /\ LET page_num  == loc.page_num
           slide_idx == 3 + page_num
           capacity  == PaperCapacity(page_num)
           end       == Min(loc.paper_offset + capacity, Len(paper_items))
           page_papers == PySlice(paper_items, loc.paper_offset, end)
           last      == page_num + 1 >= paper_pages
       IN  /\ prs' = IF slide_idx < Len(prs)
                     THEN [prs EXCEPT ![slide_idx + 1] = _fill_paper_slide(@, page_papers)]
                     ELSE prs
           /\ pc' = IF last THEN AfterPapersFilled ELSE pc
           /\ loc' = IF last THEN EnterLoc(AfterPapersFilled)
                     ELSE [loc EXCEPT !.page_num = @ + 1,
                                      !.paper_offset =
                                          IF slide_idx < Len(prs) THEN end ELSE @]
    /\ UNCHANGED <<resume, plan, rels, deleted, next_id>>
    /\ RenderFrame

\* ---- step 7: one iteration of the project/achievement fill loop
\* the page of the loop at hand holds a record whose fill raises
PageRaisesNow ==
    LET project_slide_idx == first_project_idx + loc.page_num
    IN  /\ project_slide_idx < Len(prs)
        /\ PageRaises(prs[project_slide_idx + 1], resume, loc.page_num, project_pages_count)

\* one iteration of the loop of step 7 that ends in a TypeError: nothing in
\* _render_single_resume or render_all catches it, so it leaves both
FillProjectPageRaises ==
    /\ pc = "fill_projects"
    /\ PageRaisesNow
    /\ prs' = [prs EXCEPT ![first_project_idx + loc.page_num + 1] =
                 SlideUntilRaise(@, resume, loc.page_num, project_pages_count)]
    /\ pc' = "raised"
    /\ all_pc' = IF all_pc = "render" THEN "raised" ELSE all_pc
    /\ UNCHANGED <<resume, plan, loc, rels, deleted, next_id>>
    /\ UNCHANGED <<resumes, resume_no, owner, final_prs, final_next, blocks>>
    /\ AllFrame

FillProjectPage ==
    /\ pc = "fill_projects"
    /\ ~PageRaisesNow
    /\ LET page_num == loc.page_num
           project_slide_idx == first_project_idx + page_num
           last == page_num + 1 >= project_pages
       IN  /\ prs' = IF project_slide_idx < Len(prs)
                     THEN [prs EXCEPT ![project_slide_idx + 1] =
                             _fill_project_slide_paginated(@, resume, page_num, project_pages, project_pages_count)]
                     ELSE prs
           /\ pc' = IF last THEN "fill_office" ELSE pc
           /\ loc' = IF last THEN EnterLoc("fill_office")
                     ELSE [loc EXCEPT !.page_num = @ + 1]
    /\ UNCHANGED <<resume, plan, rels, deleted, next_id>>
    /\ RenderFrame

\* ---- step 8: the closing-opinion slide
FillTalentOffice ==
    /\ pc = "fill_office"
    /\ LET talent_office_idx == first_project_idx + project_pages
       IN  prs' = IF talent_office_idx < Len(prs)
                  THEN [prs EXCEPT ![talent_office_idx + 1] = _fill_talent_office_slide(@)]
                  ELSE prs
    /\ pc' = "done"
    /\ loc' = EnterLoc("done")
    /\ UNCHANGED <<resume, plan, rels, deleted, next_id>>
    /\ RenderFrame

RenderNext ==
    \/ PlanSubject
    \/ FillBasicInfo
    \/ DropSecondPaperSlide
    \/ DropFirstPaperSlide
    \/ InsertPaperSlide
    \/ FillPaperPage
    \/ InsertProjectSlide
    \/ InsertOtherSlide
    \/ FillProjectPage
    \/ FillTalentOffice

(***************************************************************************)
(* The fillers applied again and again to one table (SpecFill).            *)
(* A window is [awards, items]: awards is empty except for the achievement *)
(* table, whose filler takes the page's awards and its other achievements. *)
(***************************************************************************)
FillPaper(i) == PaperItem(i, TitleText(i), <<"N">>, <<"S">>, <<"2020">>)

Fillers == {"paper", "project", "achievement"}

FillerColumns(f) == IF f = "achievement" THEN 4 ELSE 5

Windows(f) ==
    CASE f = "paper" ->
            { [awards |-> <<>>, items |-> [k \in 1..n |-> FillPaper(o + k)]] :
                o \in 0..1, n \in 0..MaxWindow }
      [] f = "project" ->
            { [awards |-> <<>>, items |-> [k \in 1..n |-> ProjectRecord(o + k)]] :
                o \in 0..1, n \in 0..MaxWindow }
      [] OTHER ->
            UNION { { [awards |-> [k \in 1..a |-> AwardRecord(o + k)],
                       items  |-> [k \in 1..(n - a) |-> OtherRecord(o + k)]] :
                        a \in 0..n } :
                    o \in 0..1, n \in 0..MaxWindow }

FillInit ==
    /\ filler \in Fillers
    /\ table \in { BlankTable(r, FillerColumns(filler)) : r \in 1..MaxRows }
    /\ window = <<>>
    /\ prev = <<>>

FillPaperTable ==
    /\ filler = "paper"
    /\ \E w \in Windows("paper") :
        /\ table' = _fill_paper_table(table, w.items)
        /\ window' = <<w>>
    /\ prev' = window
    /\ UNCHANGED filler
    /\ FillFrame

FillProjectsTable ==
    /\ filler = "project"
    /\ \E w \in Windows("project") :
        /\ table' = _fill_projects_table(table, w.items)
        /\ window' = <<w>>
    /\ prev' = window
    /\ UNCHANGED filler
    /\ FillFrame

FillAchievementsTable ==
    /\ filler = "achievement"
    /\ \E w \in Windows("achievement") :
        /\ table' = _fill_other_achievements_table(table, w.items, w.awards, TRUE)
        /\ window' = <<w>>
    /\ prev' = window
    /\ UNCHANGED filler
    /\ FillFrame

FillNext == FillPaperTable \/ FillProjectsTable \/ FillAchievementsTable

(***************************************************************************)
(* One paper title written to a table row by either renderer (SpecTitle).  *)
(***************************************************************************)
Glyphs == <<"a", "b", "c">>

LongTitle(n, p) == [i \in 1..n |-> Glyphs[((i + p) % Len(Glyphs)) + 1]]

TitleInit ==
    /\ paper \in { PaperItem(1, LongTitle(n, p), <<"N">>, <<"S">>, <<"2020">>) :
                    n \in 0..MaxTitleLen, p \in 0..1 }
    /\ cell = <<>>
    /\ writer = "none"

\* the template filler on a one-row paper table
WriteTemplateRow ==
    /\ writer = "none"
    /\ cell' = << _fill_paper_table(BlankTable(1, 5), <<paper>>)[2][2] >>
    /\ writer' = "template"
    /\ UNCHANGED paper
    /\ TitleFrame

\* the from-scratch renderer's table for the one-paper page
WriteScratchRow ==
    /\ writer = "none"
    /\ cell' = << _create_papers_table(<<paper>>)[2][2] >>
    /\ writer' = "scratch"
    /\ UNCHANGED paper
    /\ TitleFrame

TitleNext == WriteTemplateRow \/ WriteScratchRow

(***************************************************************************)
(* Specifications.  Each runs one component; the others stay idle.         *)
(***************************************************************************)
PlanIdle == total_papers = 0 /\ planned = <<>>

ExtractIdle == papers = <<>> /\ items = <<>> /\ index = 1 /\ grp = 0

FillIdle == table = <<>> /\ filler = "none" /\ window = <<>> /\ prev = <<>>

TitleIdle == paper = FillPaper(1) /\ cell = <<>> /\ writer = "none"

RenderIdle ==
    /\ resume = Subject(0, 0, 0, 0)
    /\ prs = <<>>
    /\ rels = {}
    /\ pc = "idle"
    /\ plan = NoPlan
    /\ loc = EnterLoc("idle")
    /\ deleted = <<>>
    /\ next_id = 1

AllIdle ==
    /\ resumes = <<>>
    /\ resume_no = 0
    /\ owner = "none"
    /\ final_prs = <<>>
    /\ final_next = 1
    /\ blocks = <<>>
    /\ all_pc = "idle"
    /\ template_exists = TRUE

ScratchIdle ==
    /\ scratch_resumes = <<>>
    /\ scratch_prs = <<>>
    /\ scratch_pc = "idle"
    /\ scratch_no = 0
    /\ papers_per_page = 8
    /\ paper_calls = <<>>

PlanNext == PlanPapers

ExtractNext == ExtractGroup

Init == RenderInit /\ PlanIdle /\ ExtractIdle /\ FillIdle /\ TitleIdle /\ AllIdle /\ ScratchIdle

Spec == Init /\ [][RenderNext]_vars

InitPlan ==
    PlanInit /\ ExtractIdle /\ FillIdle /\ TitleIdle /\ RenderIdle /\ AllIdle /\ ScratchIdle

SpecPlan == InitPlan /\ [][PlanNext]_vars

InitExtract ==
    ExtractInit /\ PlanIdle /\ FillIdle /\ TitleIdle /\ RenderIdle /\ AllIdle /\ ScratchIdle

SpecExtract == InitExtract /\ [][ExtractNext]_vars

InitFill ==
    FillInit /\ PlanIdle /\ ExtractIdle /\ TitleIdle /\ RenderIdle /\ AllIdle /\ ScratchIdle

SpecFill == InitFill /\ [][FillNext]_vars

InitTitle ==
    TitleInit /\ PlanIdle /\ ExtractIdle /\ FillIdle /\ RenderIdle /\ AllIdle /\ ScratchIdle

SpecTitle == InitTitle /\ [][TitleNext]_vars

(***************************************************************************)
(* _render_single_resume on a document shorter than the 8-slide template   *)
(* (SpecShort): the template file lacks its last slides.  The subjects     *)
(* need no clone, so template_prs.slides[4..6] is never read.              *)
(***************************************************************************)
NeedsNoClone(subject) ==
    /\ _calculate_paper_pages(Len(extract_paper_items(subject.papers))) <= 2
    /\ Len(subject.projects) <= 10
    /\ Len(subject.awards) + Len(subject.other) <= 7

ShortDecks == { SubSeq(Template, 1, n) : n \in 0..(Len(Template) - 1) }

ShortInit ==
    /\ resume \in { s \in Subjects : NeedsNoClone(s) }
    /\ prs \in ShortDecks
    /\ rels = { prs[k].id : k \in 1..Len(prs) }
    /\ pc = "start"
    /\ plan = NoPlan
    /\ loc = EnterLoc("start")
    /\ deleted = <<>>
    /\ next_id = Len(Template) + 1

ShortNext ==
    \/ PlanSubject
    \/ FillBasicInfo
    \/ DropSecondPaperSlide
    \/ DropFirstPaperSlide
    \/ FillPaperPage
    \/ FillProjectPage
    \/ FillTalentOffice

InitShort == ShortInit /\ PlanIdle /\ ExtractIdle /\ FillIdle /\ TitleIdle /\ AllIdle /\ ScratchIdle

SpecShort == InitShort /\ [][ShortNext]_vars

(***************************************************************************)
(* render_all (SpecAll): the first subject is rendered in final_prs, every *)
(* later one in a temp_prs whose slides 2.. are copied to final_prs.       *)
(* While owner = "final" the variable prs is final_prs itself.             *)
(***************************************************************************)
\* _copy_slide_to_presentation: the copy is added at the end of the target
_copy_slide_to_presentation(target_prs, source_slide, id) ==
    Append(target_prs, CopyOf(source_slide, id))

\* for slide in slides_to_copy: self._copy_slide_to_presentation(final_prs, slide)
RECURSIVE CopyAll(_, _, _)
CopyAll(target_prs, slides_to_copy, id) ==
    IF slides_to_copy = <<>> THEN target_prs
    ELSE CopyAll(_copy_slide_to_presentation(target_prs, Head(slides_to_copy), id),
                 Tail(slides_to_copy), id + 1)

\* mutant: only the slides of the template's own length are copied
SlidesToCopyFirstSeven(temp_prs) ==
    PySlice(temp_prs, 2, Min(7, Len(temp_prs)))

\* range(2, min(7, len)) followed by range(7, len) when len > 7
SlidesToCopy(temp_prs) ==
    PySlice(temp_prs, 2, Min(7, Len(temp_prs)))
    \o (IF Len(temp_prs) > 7 THEN PySlice(temp_prs, 7, Len(temp_prs)) ELSE <<>>)

\* _update_cover_page: the head count on slide 0
_update_cover_page(deck) ==
    IF Len(deck) > 0 THEN [deck EXCEPT ![1].fills = Append(@, "cover")] ELSE deck

\* the output deck, whichever variable holds it
FinalDeck == IF owner = "final" THEN prs ELSE final_prs

\* the malformed subjects: fields the render replaces by a default (a mapping
\* for the other achievements, a null category and year of a paper group, a
\* null year of an award), a null year of an other achievement, a null year
\* of a project, a null category of an other achievement
RecoveredSubject ==
    [Subject(1, 1, 1, 1) EXCEPT
        !.papers = << [PaperGroup(1) EXCEPT !.category = Null, !.years = Null] >>,
        !.awards = << [AwardRecord(1) EXCEPT !.year = Null] >>,
        !.other_type = "mapping"]

NullYearOtherSubject == [Subject(1, 1, 1, 1) EXCEPT !.other[1].year = Null]

NullYearProjectSubject == [Subject(1, 1, 1, 1) EXCEPT !.projects[1].year = Null]

NullCategoryOtherSubject == [Subject(1, 1, 1, 1) EXCEPT !.other[1].category = Null]

MalformedSubjects ==
    { RecoveredSubject, NullYearOtherSubject, NullYearProjectSubject,
      NullCategoryOtherSubject }

\* the subjects of render_all: nothing to show, exactly the template's pages,
\* more pages than the template has in every section, and the malformed ones
AllSubjects ==
    { Subject(0, 0, 0, 0),
      Subject(9, 1, 1, 1),
      Subject(MaxPapers, MaxProjects, MaxAwards, MaxOther) }
    \cup MalformedSubjects

AllInit ==
    /\ resumes \in UNION { [1..n -> AllSubjects] : n \in 0..MaxResumes }
    /\ resume_no = 0
    /\ owner = "none"
    /\ final_prs = <<>>
    /\ final_next = 1
    /\ blocks = <<>>
    /\ all_pc = "new"
    /\ template_exists \in BOOLEAN

\* mutant: the constructor stores the path without looking at it
ConstructUnchecked ==
    /\ all_pc = "new"
    /\ all_pc' = "open"
    /\ UNCHANGED <<resumes, resume_no, owner, final_prs, final_next, blocks>>
    /\ UNCHANGED renderVars
    /\ AllFrame

\* __init__: "if not os.path.exists(template_path): raise FileNotFoundError";
\* render_all is a method of the object, so it is called only after __init__
\* returned
Construct ==
    /\ all_pc = "new"
    /\ all_pc' = IF template_exists THEN "open" ELSE "no_template"
    /\ UNCHANGED <<resumes, resume_no, owner, final_prs, final_next, blocks>>
    /\ UNCHANGED renderVars
    /\ AllFrame

\* "if not resumes: raise ValueError"
RejectEmpty ==
    /\ all_pc = "open"
    /\ resumes = <<>>
    /\ all_pc' = "failed"
    /\ UNCHANGED <<resumes, resume_no, owner, final_prs, final_next, blocks>>
    /\ UNCHANGED renderVars
    /\ AllFrame

\* the working deck and the locals on entry to _render_single_resume
EnterRender(deck, subject) ==
    /\ prs' = deck
    /\ rels' = { deck[k].id : k \in 1..Len(deck) }
    /\ resume' = subject
    /\ pc' = "start"
    /\ plan' = NoPlan
    /\ loc' = EnterLoc("start")
    /\ deleted' = <<>>
    /\ next_id' = Len(Template) + 1

\* final_prs = Presentation(template); the cover; the first subject's render
\* is entered with final_prs as its deck
OpenFinal ==
    /\ all_pc = "open"
    /\ resumes # <<>>
    /\ EnterRender(_update_cover_page(Template), resumes[1])
    /\ owner' = "final"
    /\ resume_no' = 1
    /\ all_pc' = "render"
    /\ UNCHANGED <<resumes, final_prs, final_next, blocks>>
    /\ AllFrame

\* the first subject's render returns
ReturnFirst ==
    /\ all_pc = "render"
    /\ owner = "final"
    /\ pc = "done"
    /\ final_prs' = prs
    /\ final_next' = next_id
    /\ owner' = "none"
    /\ all_pc' = "loop"
    /\ pc' = "idle"
    /\ prs' = <<>>
    /\ rels' = {}
    /\ UNCHANGED <<resume, plan, loc, deleted, next_id>>
    /\ UNCHANGED <<resumes, resume_no, blocks>>
    /\ AllFrame

\* temp_prs = Presentation(template); the next subject's render is entered
LoadTemp ==
    /\ all_pc = "loop"
    /\ resume_no < Len(resumes)
    /\ EnterRender(Template, resumes[resume_no + 1])
    /\ owner' = "temp"
    /\ resume_no' = resume_no + 1
    /\ all_pc' = "render"
    /\ UNCHANGED <<resumes, final_prs, final_next, blocks>>
    /\ AllFrame

\* the slides of the finished temp_prs from index 2 on are copied to final_prs
MergeSlides ==
    /\ all_pc = "render"
    /\ owner = "temp"
    /\ pc = "done"
    /\ LET slides_to_copy == SlidesToCopy(prs)
       IN  /\ final_prs' = CopyAll(final_prs, slides_to_copy, final_next)
           /\ final_next' = final_next + Len(slides_to_copy)
           /\ blocks' = Append(blocks, [subject |-> resume_no,
                                        first   |-> Len(final_prs),
                                        count   |-> Len(slides_to_copy)])
    /\ owner' = "none"
    /\ all_pc' = "loop"
    /\ pc' = "idle"
    /\ prs' = <<>>
    /\ rels' = {}
    /\ UNCHANGED <<resume, plan, loc, deleted, next_id>>
    /\ UNCHANGED <<resumes, resume_no>>
    /\ AllFrame

\* final_prs.save(output_path)
SaveFinal ==
    /\ all_pc = "loop"
    /\ resume_no = Len(resumes)
    /\ all_pc' = "saved"
    /\ UNCHANGED <<resumes, resume_no, owner, final_prs, final_next, blocks>>
    /\ UNCHANGED renderVars
    /\ AllFrame

AllNext ==
    \/ Construct
    \/ RejectEmpty
    \/ OpenFinal
    \/ RenderNext
    \/ FillProjectPageRaises
    \/ ReturnFirst
    \/ LoadTemp
    \/ MergeSlides
    \/ SaveFinal

InitAll ==
    AllInit /\ RenderIdle /\ PlanIdle /\ ExtractIdle /\ FillIdle /\ TitleIdle /\ ScratchIdle

SpecAll == InitAll /\ [][AllNext]_vars

(***************************************************************************)
(* PPTRenderer, the from-scratch renderer: render_all adds, per subject, a *)
(* cover, a profile, the paper slides of render_papers_slides, a projects  *)
(* slide, an awards slide and a separator before the next subject.         *)
(***************************************************************************)
ScratchSlide(kind, t) == [kind |-> kind, table |-> t]

\* render_papers_slides: the deck with the slides added, and the value
\* returned
render_papers_slides(deck, res, per_page) ==
    IF res.papers = <<>>
    THEN [prs |-> Append(deck, ScratchSlide("placeholder", <<>>)), ret |-> 1]
    ELSE LET flat        == extract_paper_items(res.papers)
             n_papers    == Len(flat)
             total_pages == Ceil(n_papers, per_page)
             page(page_num) ==
                 LET start_idx == page_num * per_page
                     end_idx   == Min(start_idx + per_page, n_papers)
                 IN  ScratchSlide("papers",
                         _create_papers_table(PySlice(flat, start_idx, end_idx)))
         IN  [prs |-> deck \o [k \in 1..total_pages |-> page(k - 1)],
              ret |-> total_pages]

\* the paper data of the subjects: none, groups without titles, one page,
\* a full page, one more than a page, several groups
ScratchPapers ==
    { <<>>,
      <<PaperGroup(0)>>,
      <<PaperGroup(0), PaperGroup(0)>>,
      <<PaperGroup(1)>>,
      <<PaperGroup(8)>>,
      <<PaperGroup(9)>>,
      <<PaperGroup(3), PaperGroup(0), PaperGroup(MaxScratchPapers - 3)>> }

ScratchSubjects == { [Subject(0, 1, 1, 1) EXCEPT !.papers = ps] : ps \in ScratchPapers }

\* PPTRenderer(papers_per_page): the default 8, or 6 for long titles
PerPageChoices == {6, 8}

ScratchInit ==
    /\ scratch_resumes \in UNION { [1..n -> ScratchSubjects] : n \in 0..MaxResumes }
    /\ scratch_prs = <<>>
    /\ scratch_pc = "open"
    /\ scratch_no = 0
    /\ papers_per_page \in PerPageChoices
    /\ paper_calls = <<>>

\* mutant: the deck is made before the list is looked at
ScratchRejectEmptyAfterOpen ==
    /\ scratch_pc = "open"
    /\ scratch_resumes = <<>>
    /\ scratch_prs' = << <<>> >>
    /\ scratch_pc' = "failed"
    /\ UNCHANGED <<scratch_resumes, scratch_no, papers_per_page, paper_calls>>
    /\ ScratchFrame

\* "if not resumes: raise ValueError"
ScratchRejectEmpty ==
    /\ scratch_pc = "open"
    /\ scratch_resumes = <<>>
    /\ scratch_pc' = "failed"
    /\ UNCHANGED <<scratch_resumes, scratch_prs, scratch_no, papers_per_page, paper_calls>>
    /\ ScratchFrame

\* prs = Presentation()
ScratchOpen ==
    /\ scratch_pc = "open"
    /\ scratch_resumes # <<>>
    /\ scratch_prs' = << <<>> >>
    /\ scratch_no' = 1
    /\ scratch_pc' = "head"
    /\ UNCHANGED <<scratch_resumes, papers_per_page, paper_calls>>
    /\ ScratchFrame

\* render_cover_slide, render_profile_slide
RenderHead ==
    /\ scratch_pc = "head"
    /\ scratch_prs' = << scratch_prs[1] \o <<ScratchSlide("cover", <<>>),
                                             ScratchSlide("profile", <<>>)>> >>
    /\ scratch_pc' = "papers"
    /\ UNCHANGED <<scratch_resumes, scratch_no, papers_per_page, paper_calls>>
    /\ ScratchFrame

\* paper_pages = self.render_papers_slides(prs, resume)
RenderPapersSlides ==
    /\ scratch_pc = "papers"
    /\ LET deck == scratch_prs[1]
           out  == render_papers_slides(deck, scratch_resumes[scratch_no], papers_per_page)
       IN  /\ scratch_prs' = << out.prs >>
           /\ paper_calls' = Append(paper_calls,
                 [subject |-> scratch_no,
                  added   |-> SubSeq(out.prs, Len(deck) + 1, Len(out.prs)),
                  ret     |-> out.ret])
    /\ scratch_pc' = "tail"
    /\ UNCHANGED <<scratch_resumes, scratch_no, papers_per_page>>
    /\ ScratchFrame

\* render_projects_slide, render_awards_slide, the separator if the subject
\* is not the last one
RenderTail ==
    /\ scratch_pc = "tail"
    /\ LET last == scratch_no >= Len(scratch_resumes)
       IN  /\ scratch_prs' =
                 << scratch_prs[1]
                    \o <<ScratchSlide("projects", <<>>), ScratchSlide("awards", <<>>)>>
                    \o (IF last THEN <<>> ELSE <<ScratchSlide("separator", <<>>)>>) >>
           /\ scratch_no' = IF last THEN scratch_no ELSE scratch_no + 1
           /\ scratch_pc' = IF last THEN "save" ELSE "head"
    /\ UNCHANGED <<scratch_resumes, papers_per_page, paper_calls>>
    /\ ScratchFrame

\* prs.save(output_path)
ScratchSave ==
    /\ scratch_pc = "save"
    /\ scratch_pc' = "saved"
    /\ UNCHANGED <<scratch_resumes, scratch_prs, scratch_no, papers_per_page, paper_calls>>
    /\ ScratchFrame

ScratchNext ==
    \/ ScratchRejectEmpty
    \/ ScratchOpen
    \/ RenderHead
    \/ RenderPapersSlides
    \/ RenderTail
    \/ ScratchSave

InitScratch ==
    ScratchInit /\ AllIdle /\ RenderIdle /\ PlanIdle /\ ExtractIdle /\ FillIdle /\ TitleIdle

SpecScratch == InitScratch /\ [][ScratchNext]_vars

(***************************************************************************)
(* Both renderers handed the same list of subjects, each on its own deck.  *)
(***************************************************************************)
InitBoth ==
    /\ AllInit
    /\ scratch_resumes = resumes
    /\ scratch_prs = <<>>
    /\ scratch_pc = "open"
    /\ scratch_no = 0
    /\ papers_per_page = 8
    /\ paper_calls = <<>>
    /\ RenderIdle /\ PlanIdle /\ ExtractIdle /\ FillIdle /\ TitleIdle

BothNext == AllNext \/ ScratchNext

SpecBoth == InitBoth /\ [][BothNext]_vars

(***************************************************************************)
(* Properties.                                                             *)
(***************************************************************************)
\* ---- reading a deck
SectionOf(kind) == IF kind \in {"paper8", "paper11"} THEN "paper" ELSE kind

\* python index of the first slide of a section, Len(deck) if there is none
RECURSIVE FirstIdxFrom(_, _, _)
FirstIdxFrom(deck, section, k) ==
    IF k > Len(deck) THEN Len(deck)
    ELSE IF SectionOf(deck[k].kind) = section THEN k - 1
    ELSE FirstIdxFrom(deck, section, k + 1)

FirstIdx(deck, section) == FirstIdxFrom(deck, section, 1)

SlidesOf(deck, section) ==
    { k \in 1..Len(deck) : SectionOf(deck[k].kind) = section }

TemplatePaperPages == Cardinality(SlidesOf(Template, "paper"))

RowIsEmpty(row) == \A c \in 1..Len(row) : row[c] = EmptyText

\* the fill method that belongs to a section
FillOf(section) ==
    CASE section = "basic"       -> <<"basic">>
      [] section = "paper"       -> <<"paper">>
      [] section = "project"     -> <<"project">>
      [] section = "achievement" -> <<"achievement">>
      [] section = "closing"     -> <<"office">>
      [] OTHER                   -> <<>>

\* the section the claimed layout puts at python index i
LayoutSection(i) ==
    IF i < 3 THEN TemplateKinds[i + 1]
    ELSE IF i < 3 + paper_pages THEN "paper"
    ELSE IF i < 3 + paper_pages + project_pages_count THEN "project"
    ELSE IF i < 3 + paper_pages + project_pages_count + other_pages_count
    THEN "achievement"
    ELSE "closing"

PapersReconciled ==
    pc \in {"fill_papers", "insert_projects", "insert_other", "fill_projects",
            "fill_office", "done"}

PapersFilled ==
    pc \in {"insert_projects", "insert_other", "fill_projects", "fill_office",
            "done"}

\* C1: after the render of any subject on the 8-slide template the deck has
\* 4 + pp + pj + pa slides, laid out as cover, index, basic, pp paper slides,
\* pj project slides, pa achievement slides, closing; each slide was filled
\* once, by the fill of its own section; and at no moment of the render has a
\* slide been filled by the fill of another section.
C1_FillsMatchLayout ==
    /\ \A k \in 1..Len(prs) :
        \A f \in 1..Len(prs[k].fills) :
            <<prs[k].fills[f]>> = FillOf(SectionOf(prs[k].kind))
    /\ pc = "done" =>
        /\ Len(prs) = 4 + paper_pages + project_pages_count + other_pages_count
        /\ \A k \in 1..Len(prs) :
            /\ SectionOf(prs[k].kind) = LayoutSection(k - 1)
            /\ prs[k].fills = FillOf(LayoutSection(k - 1))

\* a render that grew all three sections has finished
C1_Witness ==
    /\ pc = "done"
    /\ paper_pages = 4 /\ project_pages_count = 2 /\ other_pages_count = 3
    /\ Len(prs) = 13
    /\ prs[13].fills = <<"office">>

\* C2: _calculate_paper_pages(0) = 0 and, for n >= 1, the result is the least
\* p >= 1 with 8 + 11 * (p - 1) >= n; 0, 1, 8, 9, 19, 30 papers need
\* 0, 1, 1, 2, 2, 3 pages and 80 papers need 8.
C2_PaperPagesExact ==
    planned # <<>> =>
        LET n == total_papers
            p == planned[1]
        IN  /\ n = 0 => p = 0
            /\ n >= 1 => /\ p >= 1
                         /\ 8 + 11 * (p - 1) >= n
                         /\ p > 1 => 8 + 11 * (p - 2) < n
            /\ n = 1 => p = 1
            /\ n = 8 => p = 1
            /\ n = 9 => p = 2
            /\ n = 19 => p = 2
            /\ n = 30 => p = 3
            /\ n = 80 => p = 8

\* 80 papers, beyond the six literal schedule entries, were planned
C2_Witness == total_papers = 80 /\ planned = <<8>>

\* ---- the paper pages of the deck
\* the window the claim gives page k (1-based) of n papers, as python bounds
PaperLo(k) == IF k = 1 THEN 0 ELSE 8 + 11 * (k - 2)
PaperHi(k) == 8 + 11 * (k - 1)

\* title cells of the rows of a table that hold something, in row order
RECURSIVE ReadFrom(_, _)
ReadFrom(t, r) ==
    IF r > Len(t) THEN <<>>
    ELSE (IF RowIsEmpty(t[r]) THEN <<>> ELSE <<t[r][2]>>) \o ReadFrom(t, r + 1)

ReadRows(t) == ReadFrom(t, 2)

RECURSIVE ReadPages(_, _, _)
ReadPages(deck, from, to) ==
    IF from > to THEN <<>>
    ELSE ReadRows(deck[from].table) \o ReadPages(deck, from + 1, to)

\* C3: once the paper pages are filled, page k of n >= 1 papers shows
\* papers[lo:hi] with lo = 0, hi = 8 for k = 1 and lo = 8 + 11(k-2),
\* hi = 8 + 11(k-1) for k >= 2 (clipped to n), one paper per row from the
\* first data row on and nothing below; no page is empty, the window fits the
\* 8 data rows of the first paper slide and the 11 of every later one, and
\* the pages read in order give every paper exactly once.  25 papers take
\* 3 pages, one of them a clone, holding 8, 11 and 6 papers.
C3_PaperWindowsPartition ==
    (PapersFilled /\ paper_pages >= 1) =>
        LET n == Len(paper_items)
        IN  /\ \A k \in 1..paper_pages :
                LET t  == prs[3 + k].table
                    w  == PySlice(paper_items, PaperLo(k), PaperHi(k))
                IN  /\ Len(t) - 1 = (IF k = 1 THEN 8 ELSE 11)
                    /\ w # <<>>
                    /\ Len(w) <= Len(t) - 1
                    /\ \A r \in 1..(Len(t) - 1) :
                        IF r <= Len(w)
                        THEN t[r + 1][2] = CapText(w[r].title, 80)
                        ELSE RowIsEmpty(t[r + 1])
            /\ ReadPages(prs, 4, 3 + paper_pages)
                 = [i \in 1..n |-> CapText(paper_items[i].title, 80)]
            /\ n = 25 =>
                /\ paper_pages = 3
                /\ Cardinality({ k \in SlidesOf(prs, "paper") :
                                    prs[k].origin = "copy" }) = 1
                /\ Len(ReadRows(prs[4].table)) = 8
                /\ Len(ReadRows(prs[5].table)) = 11
                /\ Len(ReadRows(prs[6].table)) = 6

\* the 25-paper subject has been rendered: the third page holds papers 20..25
C3_Witness ==
    /\ pc = "done"
    /\ Len(paper_items) = 25
    /\ prs[6].origin = "copy"
    /\ ReadRows(prs[6].table) = [i \in 1..6 |-> TitleText(19 + i)]

C5_DeletionKeepsEarlier ==
    deleted # <<>> =>
        /\ \A k \in 1..3 :
            prs[k].id = Template[k].id /\ prs[k].kind = Template[k].kind
        /\ paper_pages = 1 =>
            prs[4].id = Template[4].id /\ prs[4].kind = "paper8"

\* one paper page kept, the second paper slide deleted
C5_Witness ==
    /\ pc = "done"
    /\ paper_pages = 1
    /\ Len(deleted) = 1
    /\ prs[4].id = Template[4].id

\* ---- the achievement pages of the deck
\* the name cells the merged stream awards ++ other is written as
AchievementStream ==
    [i \in 1..Len(resume.awards) |-> CapText(resume.awards[i].name, 80)]
    \o [i \in 1..Len(resume.other) |->
            CapText(Join(resume.other[i].names, "/"), 80)]

FirstAchievementPos == 3 + paper_pages + project_pages_count + 1

ShownNames(f, w) ==
    CASE f = "paper"   -> [k \in 1..Len(w.items) |-> w.items[k].title]
      [] f = "project" -> [k \in 1..Len(w.items) |-> Join(w.items[k].names, "/")]
      [] OTHER         -> [k \in 1..Len(w.awards) |-> w.awards[k].name]
                          \o [k \in 1..Len(w.items) |->
                                  Join(w.items[k].names, "/")]

\* the filler of the table applied once more to t
Refill(f, t, w) ==
    CASE f = "paper"   -> _fill_paper_table(t, w.items)
      [] f = "project" -> _fill_projects_table(t, w.items)
      [] OTHER         -> _fill_other_achievements_table(t, w.items, w.awards, TRUE)

\* C7: after any sequence of fills of one table the header is untouched, data
\* row r shows record r of the last window (as far as the table has rows), no
\* cell of a data row still holds what was there before the fill, every data
\* row beyond the last window is empty, and filling once more with the same
\* window leaves the table as it is.
C7_ClearBeforeWrite ==
    window # <<>> =>
        LET w     == window[1]
            names == ShownNames(filler, w)
        IN  /\ table[1] = [c \in 1..FillerColumns(filler) |-> <<"header">>]
            /\ \A r \in 2..Len(table) :
                IF r - 1 <= Len(names)
                THEN /\ table[r][2] = names[r - 1]
                     /\ \A c \in 1..Len(table[r]) : table[r][c] # TemplateText
                ELSE RowIsEmpty(table[r])
            /\ Refill(filler, table, w) = table

\* a table of three data rows filled with a 3-record window and then with a
\* 1-record window: the second and third data row are empty
C7_Witness ==
    /\ Len(table) = 4
    /\ prev # <<>>
    /\ Len(ShownNames(filler, prev[1])) = 3
    /\ window # <<>>
    /\ Len(ShownNames(filler, window[1])) = 1
    /\ table[2][2] = ShownNames(filler, window[1])[1]
    /\ RowIsEmpty(table[3])
    /\ RowIsEmpty(table[4])

\* ---- one title written by either renderer
\* C8: whichever renderer writes a paper title into a table row, a title of
\* at most 80 characters is written unchanged and a longer one as exactly its
\* first 80 characters, with nothing added.
C8_TitleCap ==
    writer # "none" =>
        cell = << IF Len(paper.title) <= 80 THEN paper.title
                  ELSE SubSeq(paper.title, 1, 80) >>

\* ---- the flattened paper list
RECURSIVE TitleCount(_, _)
\* the number of titles of the first g groups
TitleCount(groups, g) ==
    IF g = 0 THEN 0 ELSE TitleCount(groups, g - 1) + Len(groups[g].titles)

\* the group the k-th title of the input belongs to
GroupOf(groups, k) ==
    CHOOSE g \in 1..Len(groups) :
        TitleCount(groups, g - 1) < k /\ k <= TitleCount(groups, g)

\* C9: after any number of groups the output has one item per title of the
\* groups read so far, in group order and, within a group, in title order;
\* the item at position k (1-based) has index k; it carries the journal of its
\* own group (book-title marks removed) and the category of its own group
\* (a dash when the group has none); and the whole function returns exactly
\* the list built group by group.
C9_ExtractInOrder ==
    /\ Len(items) = TitleCount(papers, grp)
    /\ index = Len(items) + 1
    /\ \A k \in 1..Len(items) :
        LET g == GroupOf(papers, k)
            j == k - TitleCount(papers, g - 1)
        IN  /\ g <= grp
            /\ items[k].index = k
            /\ items[k].title = papers[g].titles[j]
            /\ items[k].journal =
                 SelectSeq(papers[g].journal, LAMBDA c : c \notin {"<", ">"})
            /\ items[k].category =
                 IF papers[g].category = <<>> THEN <<"-">> ELSE papers[g].category
    /\ grp = Len(papers) => items = extract_paper_items(papers)

\* two groups of different venues, two titles or more each, both read
C9_Witness ==
    /\ Len(papers) = 2
    /\ grp = 2
    /\ Len(papers[1].titles) >= 2
    /\ Len(papers[2].titles) >= 2
    /\ papers[1].journal # papers[2].journal
    /\ Len(items) = Len(papers[1].titles) + Len(papers[2].titles)
    /\ items[Len(items)].index = Len(items)

\* ---- the paper slides the render deletes
HasSlide(deck, id) == \E k \in 1..Len(deck) : deck[k].id = id

\* C10: the render deletes paper slides only; once the paper section is
\* reconciled exactly max(2 - paper_pages, 0) slides are gone: for one paper
\* page the second paper slide, taken from index 4, for no paper page the
\* second paper slide from index 4 and then the first from index 3; the first
\* paper slide is never gone while the second is still in the deck, and every
\* slide of another section is still in the deck.
C10_TrailingPaperSlidesDeleted ==
    /\ \A d \in 1..Len(deleted) : SectionOf(deleted[d].slide.kind) = "paper"
    /\ \A k \in 1..Len(Template) :
        SectionOf(Template[k].kind) # "paper" => HasSlide(prs, Template[k].id)
    /\ (\E d \in 1..Len(deleted) : deleted[d].slide.id = Template[4].id)
            => ~HasSlide(prs, Template[5].id)
    /\ PapersReconciled =>
        /\ Len(deleted) = Max(TemplatePaperPages - paper_pages, 0)
        /\ paper_pages = 1 =>
            /\ deleted[1].index = 4
            /\ deleted[1].slide.id = Template[5].id
            /\ HasSlide(prs, Template[4].id)
        /\ paper_pages = 0 =>
            /\ deleted[1].index = 4
            /\ deleted[1].slide.id = Template[5].id
            /\ deleted[2].index = 3
            /\ deleted[2].slide.id = Template[4].id

\* a subject without papers: both paper slides deleted, index 4 then index 3
C10_Witness ==
    /\ pc = "done"
    /\ paper_pages = 0
    /\ Len(deleted) = 2
    /\ deleted[1].index = 4
    /\ deleted[2].index = 3

\* ---- the clones that grow a section
Sections == {"paper", "project", "achievement"}

\* the pages planned for a section and the pages the template ships for it
PlannedPages(section) ==
    CASE section = "paper"   -> paper_pages
      [] section = "project" -> project_pages_count
      [] OTHER               -> other_pages_count

DefaultPages(section) == Cardinality(SlidesOf(Template, section))

ClonesOf(deck, section) ==
    { k \in 1..Len(deck) :
        deck[k].origin = "copy" /\ SectionOf(deck[k].kind) = section }

\* the slides of every section are next to each other
Contiguous(deck) ==
    \A i, j, k \in 1..Len(deck) :
        (i < j /\ j < k /\ SectionOf(deck[i].kind) = SectionOf(deck[k].kind))
            => SectionOf(deck[j].kind) = SectionOf(deck[i].kind)

\* the slides loaded with the document are in the order they were loaded in
LoadedInOrder(deck) ==
    \A i, j \in 1..Len(deck) :
        (i < j /\ deck[i].origin = "loaded" /\ deck[j].origin = "loaded")
            => deck[i].id < deck[j].id

\* the step puts one new slide right behind the last slide of its own section
\* and moves no other slide
InsertedBehindSection ==
    Len(prs') = Len(prs) + 1 =>
        \E q \in 2..Len(prs') :
            /\ prs'[q].id = next_id
            /\ prs'[q].origin = "copy"
            /\ prs = [k \in 1..Len(prs) |-> IF k < q THEN prs'[k] ELSE prs'[k + 1]]
            /\ SectionOf(prs'[q - 1].kind) = SectionOf(prs'[q].kind)
            /\ q < Len(prs') => SectionOf(prs'[q + 1].kind) # SectionOf(prs'[q].kind)

ClonesSettled ==
    /\ Contiguous(prs)
    /\ LoadedInOrder(prs)
    /\ pc = "done" =>
        \A s \in Sections :
            Cardinality(ClonesOf(prs, s)) = Max(PlannedPages(s) - DefaultPages(s), 0)

\* C11: every step that inserts a slide puts one clone right behind the
\* current last slide of its section and before the first slide of the next
\* section, leaving every other slide where it was; the slides of a section
\* stay next to each other, the slides loaded with the template keep their
\* order, and at the end a section that needs more pages than the template
\* ships has exactly planned - default clones.
C11_ClonesBehindSection == []ClonesSettled /\ [][InsertedBehindSection]_vars

\* all three sections grown: 4 paper pages, 2 project pages, 3 achievement pages
C11_Witness ==
    /\ pc = "done"
    /\ Cardinality(ClonesOf(prs, "paper")) = 2
    /\ Cardinality(ClonesOf(prs, "project")) = 1
    /\ Cardinality(ClonesOf(prs, "achievement")) >= 1

\* ---- a subject that needs exactly the pages the template ships
PlanMatchesTemplate ==
    /\ pc \notin {"idle", "start"}
    /\ \A s \in Sections : PlannedPages(s) = DefaultPages(s)

\* C12: when the plan asks for 2 paper pages, 1 project page and 1
\* achievement page, no step of the render inserts or deletes a slide: the
\* deck holds the template's slides, each at its place, all through the render.
C12_NoStructuralChange ==
    PlanMatchesTemplate =>
        /\ Len(prs) = Len(Template)
        /\ \A k \in 1..Len(prs) :
            /\ prs[k].id = Template[k].id
            /\ prs[k].kind = Template[k].kind
            /\ prs[k].origin = "loaded"
        /\ deleted = <<>>
        /\ next_id = Len(Template) + 1
        /\ rels = { Template[k].id : k \in 1..Len(Template) }

\* such a subject rendered to the end, its second paper page filled
C12_Witness ==
    /\ PlanMatchesTemplate
    /\ pc = "done"
    /\ Len(paper_items) > 8
    /\ prs[5].fills = <<"paper">>

\* ---- a window longer than the table
WrittenRows(t) == { r \in 2..Len(t) : ~RowIsEmpty(t[r]) }

RowsWithinTable ==
    window # <<>> =>
        LET names == ShownNames(filler, window[1])
        IN  /\ Cardinality(WrittenRows(table)) = Min(Len(names), Len(table) - 1)
            /\ \A r \in WrittenRows(table) : table[r][2] = names[r - 1]
            /\ \A r \in 1..Len(table) : Len(table[r]) = FillerColumns(filler)

\* C13: a fill never changes the number of rows or cells of the table; it
\* writes min(window length, data rows) rows, and the rows written are the
\* first records of the window, in order: records past the last row of the
\* table are dropped.
C13_ExcessDropped == []RowsWithinTable /\ [][Len(table') = Len(table)]_vars

\* a window of four records filled into a table of three data rows
C13_Witness ==
    /\ window # <<>>
    /\ Len(table) = 4
    /\ Len(ShownNames(filler, window[1])) = 4
    /\ Cardinality(WrittenRows(table)) = 3
    /\ table[4][2] = ShownNames(filler, window[1])[3]

\* ---- the category label of the awards
\* the rows <<slide, table row>> of the achievement pages that show the label
AwardLabelRows ==
    { kr \in (1..Len(prs)) \X (2..8) :
        /\ prs[kr[1]].kind = "achievement"
        /\ kr[2] <= Len(prs[kr[1]].table)
        /\ prs[kr[1]].table[kr[2]][1] = AwardsLabel }

\* C14: once the achievement pages of a subject are filled, the awards label
\* is shown on the first award row (the first data row of the first
\* achievement page) and on no other row, however many awards there are.
C14_AwardLabelOnce ==
    pc = "done" =>
        AwardLabelRows = IF resume.awards # <<>>
                         THEN { <<FirstAchievementPos, 2>> }
                         ELSE {}

\* ---- the year of an item
\* the year the claimed rule gives title i (1-based) of a group
RuleYear(group, i) ==
    LET tokens == YearList(group.years)
        t      == Len(tokens)
        m      == Len(group.titles)
    IN  IF t > 1 /\ t = m THEN tokens[i]
        ELSE IF t > 0 THEN tokens[1]
        ELSE <<"-">>

\* C15: every item of a group read so far has the year of the rule: token i
\* for item i when the group has more than one year token and as many tokens
\* as titles, otherwise the first token, or "-" when there is none.
C15_YearByRule ==
    \A k \in 1..Len(items) :
        LET g == GroupOf(papers, k)
            i == k - TitleCount(papers, g - 1)
        IN  items[k].year = RuleYear(papers[g], i)

\* ---- the pages planned for projects and achievements
\* the least number of pages of cap rows that hold n rows, but at least one
PagesAtLeastOne(n, cap) ==
    CHOOSE q \in 1..(n + 1) : q * cap >= n /\ (q = 1 \/ (q - 1) * cap < n)

\* C16: the planner returns the project pages plus the achievement pages,
\* the project pages being max(1, ceil(#projects / 10)) and the achievement
\* pages max(1, ceil((#awards + #other) / 7)); the result is never below 2.
C16_ProjectPagesExact ==
    pc \notin {"idle", "start"} =>
        /\ project_pages =
             PagesAtLeastOne(Len(resume.projects), 10)
             + PagesAtLeastOne(Len(resume.awards) + Len(resume.other), 7)
        /\ project_pages_count = PagesAtLeastOne(Len(resume.projects), 10)
        /\ project_pages >= 2

\* a subject with no project, no award and no other achievement: 2 pages
C16_Witness ==
    /\ pc = "basic"
    /\ resume.projects = <<>>
    /\ resume.awards = <<>>
    /\ resume.other = <<>>
    /\ project_pages = 2

\* ---- a fill that addresses a slide the deck does not have
\* the python index the fill of the current stage is about to address
FillAddress ==
    CASE pc = "fill_papers"   -> 3 + loc.page_num
      [] pc = "fill_projects" -> first_project_idx + loc.page_num
      [] pc = "fill_office"   -> first_project_idx + project_pages
      [] OTHER                -> -1

\* C17: a fill that is about to address an index that is not below the
\* length of the deck ends the render with a failure; the render never just
\* goes on without that fill.
C17_FailsLoudly == [][FillAddress >= Len(prs) => pc' = "failed"]_vars

\* ---- where a clone comes from
\* the slide holds what the template file holds: no fill has touched it
Pristine(slide) ==
    /\ slide.fills = <<>>
    /\ slide.table = TemplateTable(slide.kind)
    /\ slide.note = (slide.kind = "achievement")

\* a slide that its own fill has not reached yet shows no record of any page
UnfilledArePristine ==
    \A k \in 1..Len(prs) :
        /\ prs[k].fills = <<>> => Pristine(prs[k])
        /\ prs[k].origin = "copy" => Len(prs[k].fills) <= 1

\* the slide a step adds is a copy of a slide of the template as loaded
NewSlideIsPristine ==
    Len(prs') > Len(prs) =>
        \A q \in 1..Len(prs') :
            prs'[q].id = next_id =>
                /\ Pristine(prs'[q])
                /\ \E j \in 1..Len(Template) : prs'[q] = CopyOf(Template[j], next_id)

\* C18: every clone inserted to grow a section is a copy of a slide of the
\* freshly loaded template, on which no fill has been performed, also when
\* slides of the working deck have been filled already; no slide carries a
\* record of another page before its own fill, and a clone is filled at most
\* once.
C18_ClonesFromPristineTemplate ==
    []UnfilledArePristine /\ [][NewSlideIsPristine]_vars

\* a project clone inserted after the paper pages were filled, not yet filled
C18_Witness ==
    /\ pc = "fill_projects"
    /\ loc.page_num = 0
    /\ \E k \in ClonesOf(prs, "project") : Pristine(prs[k])
    /\ \E k \in ClonesOf(prs, "paper") : prs[k].fills = <<"paper">>

\* ---- the shared output deck of render_all
\* every slide of the output deck is still there after the step, at its place
OutputAppendOnly ==
    \A k \in 1..Len(FinalDeck) :
        /\ k <= Len(FinalDeck')
        /\ FinalDeck'[k].id = FinalDeck[k].id

\* the merged blocks follow each other in the order of the subjects
BlocksInOrder ==
    \A b \in 1..Len(blocks) :
        /\ blocks[b].subject = b + 1
        /\ blocks[b].first + blocks[b].count
             = IF b < Len(blocks) THEN blocks[b + 1].first ELSE Len(final_prs)

\* C19: no step of render_all deletes or moves a slide of the output deck or
\* inserts a slide before one: the deck only grows at its end; and the
\* subjects' blocks are in the deck in the order of the input list.
C19_OutputAppendOnly == [][OutputAppendOnly]_vars /\ []BlocksInOrder

\* ---- the deck a subject is rendered in
\* while a subject is being rendered, the deck of the render is a working
\* copy of its own and not the output deck
RenderOnWorkingCopy == pc \notin {"idle", "done"} => owner = "temp"

\* the output deck changes only when it is opened and when the slides of a
\* finished working copy are copied to it
OutputOnlyByMerge ==
    FinalDeck' # FinalDeck => \/ all_pc = "open"
                              \/ owner = "temp" /\ pc = "done"

\* C20: every subject of render_all, the first one too, is rendered in a
\* working copy of the template that is not the output deck, and the output
\* deck changes only by the copy of slides from a finished working copy.
C20_IndependentCopies == []RenderOnWorkingCopy /\ [][OutputOnlyByMerge]_vars

\* ---- relationships and the slide list
\* the relationships of the deck are those of the listed slides, one each
RelsMatchSlides ==
    /\ rels = { prs[k].id : k \in 1..Len(prs) }
    /\ Cardinality(rels) = Len(prs)

\* C23: every deletion drops the slide's entry and its relationship, every
\* insertion adds both: after _render_single_resume the relationships of the
\* deck and the slides of its list correspond one to one.
C23_RelsMatchSlides == pc # "idle" => RelsMatchSlides

\* a finished render that deleted a template slide, and one that cloned some
C23_Witness ==
    /\ pc = "done"
    /\ RelsMatchSlides
    /\ \/ Len(deleted) = 2
       \/ Len(deleted) = 0 /\ Len(prs) > Len(Template)

\* ---- the achievement page count of the render
\* the project pages within the total of _calculate_project_pages
PlannedProjectPart == _calculate_project_pages(resume.projects, <<>>, <<>>) - 1

\* C28: the project page count _render_single_resume recomputes equals the
\* project part of _calculate_project_pages, so other_pages_count is the
\* achievement page count and at least 1, and the branch for
\* other_pages_count = 0 (the call of the undefined _delete_slide) is never
\* entered.
C28_AchievementPagesAtLeastOne ==
    pc \notin {"idle", "start"} =>
        /\ project_pages_count = PlannedProjectPart
        /\ other_pages_count = PagesAtLeastOne(Len(resume.awards) + Len(resume.other), 7)
        /\ other_pages_count >= 1
        /\ pc # "delete_other"

\* the render passed the branch with two project pages and one achievement page
C28_Witness ==
    /\ pc = "fill_projects"
    /\ project_pages_count = 2
    /\ other_pages_count = 1
    /\ C28_AchievementPagesAtLeastOne

\* ---- project pages
\* the name cells of the projects, in input order
ProjectStream ==
    [i \in 1..Len(resume.projects) |->
        CapText(Join(resume.projects[i].names, "/"), 100)]

FirstProjectPos == 3 + paper_pages + 1

Repeat(x, n) == [i \in 1..n |-> x]

\* the sections of one subject's block
BlockSections(subject) ==
    LET pp == _calculate_paper_pages(Len(extract_paper_items(subject.papers)))
        pj == PagesAtLeastOne(Len(subject.projects), 10)
        pa == PagesAtLeastOne(Len(subject.awards) + Len(OtherOf(subject)), 7)
    IN  <<"basic">> \o Repeat("paper", pp) \o Repeat("project", pj)
        \o Repeat("achievement", pa) \o <<"closing">>

RECURSIVE BlocksFrom(_, _)
BlocksFrom(list, i) ==
    IF i > Len(list) THEN <<>>
    ELSE BlockSections(list[i]) \o BlocksFrom(list, i + 1)

\* the saved deck: cover, index-summary, then the subjects' blocks in input
\* order, every slide of a block filled once by the fill of its section
SavedLayout ==
    all_pc = "saved" =>
        LET expected == <<"cover", "index">> \o BlocksFrom(resumes, 1)
        IN  /\ Len(final_prs) = Len(expected)
            /\ \A k \in 1..Len(expected) :
                  /\ SectionOf(final_prs[k].kind) = expected[k]
                  /\ k > 2 => final_prs[k].fills = FillOf(expected[k])

\* a merge appends every slide of the working deck from index 2 to its end
MergeCopiesAll ==
    (owner = "temp" /\ pc = "done" /\ final_prs' # final_prs) =>
        /\ Len(final_prs') = Len(final_prs) + Len(prs) - 2
        /\ SubSeq(final_prs', 1, Len(final_prs)) = final_prs
        /\ \A k \in 1..(Len(prs) - 2) :
              LET new == final_prs'[Len(final_prs) + k]
              IN  new = CopyOf(prs[k + 2], new.id)

\* C27: the deck render_all saves is the cover, the index-summary and then,
\* for each subject in input order, one contiguous block of all slides of the
\* subject's reconciled deck from index 2 to its end (basic-info, paper
\* pages, project pages, achievement pages, closing-opinion): 2 + the sum of
\* (2 + pp + pj + pa) slides, nothing left out for decks shorter or longer
\* than 7 slides.
C27_SavedDeckLayout == []SavedLayout /\ [][MergeCopiesAll]_vars

\* saved: a first subject of 6 slides, a second one of more than 7
C27_Witness ==
    /\ all_pc = "saved"
    /\ Len(resumes) = 2
    /\ Len(BlockSections(resumes[1])) = 4
    /\ Len(BlockSections(resumes[2])) > 5
    /\ Len(final_prs) = 2 + 4 + Len(BlockSections(resumes[2]))
    /\ SavedLayout

\* ---- malformed fields
\* a cell that shows a null as the text "None"
ShowsNone(shown) == Len(shown) >= 4 /\ SubSeq(shown, 1, 4) = PyStr(Null)

\* C22: malformed fields never make a render fail: no render ends in an
\* exception, and no table cell of the deck shows a null (every null year or
\* category was replaced by a placeholder or an empty text before the write).
C22_MalformedRecovered ==
    /\ pc # "raised"
    /\ \A k \in 1..Len(prs) :
         \A r \in 1..Len(prs[k].table) :
           \A c \in 1..Len(prs[k].table[r]) :
             /\ prs[k].table[r][c] # Null
             /\ ~ShowsNone(prs[k].table[r][c])

\* ---- a render that raises inside render_all
\* the output deck holds the cover, the index-summary and the whole blocks of
\* the subjects before the one at hand, and nothing of that one
HoldsOnlyEarlierBlocks ==
    LET expected == <<"cover", "index">>
                    \o BlocksFrom(SubSeq(resumes, 1, resume_no - 1), 1)
    IN  /\ Len(FinalDeck) = Len(expected)
        /\ \A k \in 1..Len(expected) :
              /\ SectionOf(FinalDeck[k].kind) = expected[k]
              /\ k > 2 => FinalDeck[k].fills = FillOf(expected[k])

\* C21: when the render of a subject raises, the output deck holds no partly
\* built block of that subject (here: none of its slides, the render not
\* having finished), and no output file is saved with one.
C21_NoPartialBlock == all_pc = "raised" => HoldsOnlyEarlierBlocks

\* ---- the input records
\* the subject a render works on is the entry of the input list, as it was
\* handed in
SubjectIntact == resume_no >= 1 => resume = resumes[resume_no]

\* C26: extraction, planning and filling never change the input: the list
\* of subjects stays as it was handed to render_all, and the subject of
\* every render (its paper groups, projects, awards and other achievements)
\* keeps its keys, values and order up to the return.
C26_InputsNeverMutated == []SubjectIntact /\ [][resumes' = resumes]_vars

\* saved after two renders, one of them of a subject whose other achievements
\* were normalised
C26_Witness ==
    /\ all_pc = "saved"
    /\ Len(resumes) = 2
    /\ resumes[1] = RecoveredSubject
    /\ resume = resumes[2]

\* ---- the template file
\* without the template file there is no renderer object: render_all is never
\* entered, no deck is opened and no render of a subject begins
NoRenderWithoutTemplate ==
    ~template_exists =>
        /\ all_pc \in {"new", "no_template"}
        /\ owner = "none"
        /\ pc = "idle"
        /\ FinalDeck = <<>>

\* C25: a missing template file is detected in the constructor, which raises
\* FileNotFoundError, so that no renderer exists and no render of any subject
\* can begin.
C25_MissingTemplateFatal ==
    /\ NoRenderWithoutTemplate
    /\ all_pc = "no_template" => ~template_exists

\* the constructor raised for a list of subjects that could be rendered
C25_Witness == all_pc = "no_template" /\ ~template_exists /\ Len(resumes) = 2

\* ---- the paper slides of the from-scratch renderer
\* the title cells of the data rows of the paper tables, slide after slide
RECURSIVE ScratchTitles(_, _)
ScratchTitles(slides, k) ==
    IF k > Len(slides) THEN <<>>
    ELSE [r \in 1..(Len(slides[k].table) - 1) |-> slides[k].table[r + 1][2]]
         \o ScratchTitles(slides, k + 1)

\* C30: every call of render_papers_slides adds at least one slide and
\* returns the number of slides it added: one placeholder page when there is
\* nothing to show (no group, or groups without titles), else
\* ceil(titles / papers_per_page) pages whose windows of papers_per_page
\* items give the flattened list once, in order.
C30_PaperSlidesAtLeastOne ==
    \A c \in 1..Len(paper_calls) :
        LET call == paper_calls[c]
            flat == extract_paper_items(scratch_resumes[call.subject].papers)
            n    == Len(flat)
        IN  /\ Len(call.added) >= 1
            /\ call.ret = Len(call.added)
            /\ n = 0 => call.added = <<ScratchSlide("placeholder", <<>>)>>
            /\ n > 0 =>
                  /\ Len(call.added) = Ceil(n, papers_per_page)
                  /\ \A k \in 1..Len(call.added) :
                        /\ call.added[k].kind = "papers"
                        /\ Len(call.added[k].table) - 1
                             = Min(papers_per_page, n - (k - 1) * papers_per_page)
                  /\ ScratchTitles(call.added, 1)
                       = [i \in 1..n |-> CapText(flat[i].title, 80)]

\* ---- the empty list
\* the template renderer holds no deck and has begun no render
TemplateUntouched == owner = "none" /\ FinalDeck = <<>> /\ pc = "idle"

\* C24: render_all of either renderer, called with an empty list, raises
\* ValueError before a template is opened, a slide is made or a file is
\* written, and raises it for no other list.
C24_EmptyListRejected ==
    /\ (resumes = <<>> /\ all_pc \notin {"new", "no_template", "idle"}) =>
          all_pc \in {"open", "failed"} /\ TemplateUntouched
    /\ all_pc = "failed" => resumes = <<>>
    /\ (scratch_resumes = <<>> /\ scratch_pc # "idle") =>
          scratch_pc \in {"open", "failed"} /\ scratch_prs = <<>>
    /\ scratch_pc = "failed" => scratch_resumes = <<>>

\* both renderers have raised for the empty list
C24_Witness ==
    /\ resumes = <<>> /\ all_pc = "failed" /\ TemplateUntouched
    /\ scratch_resumes = <<>> /\ scratch_pc = "failed" /\ scratch_prs = <<>>

====
